---- MODULE Spec2Model ----
(***************************************************************************)
(* IPcam.py: an MJPEG camera server.  One encoder thread hands JPEG        *)
(* chunks to StreamingOutput.write; the main thread runs                   *)
(* HTTPServer.serve_forever, which accepts one connection at a time and    *)
(* runs StreamingHandler.do_GET for it on the same thread.                 *)
(***************************************************************************)
EXTENDS Integers, Sequences, FiniteSets, TLC

\* ---------------------------------------------------------------- bounds
NumClients == 3
MaxPublish == 2

Clients == 1 .. NumClients

\* ------------------------------------------------------------- constants
\* The encoder's delivery thread (started by start_recording), as a lock owner.
Encoder == 0

\* b"\xff\xd8", the JPEG start-of-image marker.
SOI == <<255, 216>>

\* StreamingOutput.frame before the first publish.
None == <<-1>>

\* What the encoder may hand to write(): empty, one byte, right first byte
\* and wrong second, and two complete frames.
Chunks == { <<>>, <<255>>, <<255, 0, 216>>, <<255, 216>>, <<255, 216, 7>> }

Paths == { "/", "/stream.mjpg", "/favicon.ico" }

VARIABLES
    mainpc,     \* main(): the statement it is at
    output,     \* the global `output`: "None" or "StreamingOutput"
    frame,      \* output.frame
    lock,       \* output.condition's lock: the set of its owner (empty: free)
    waiters,    \* sessions blocked in output.condition.wait()
    ppc,        \* the encoder thread's place in StreamingOutput.write
    pbuf,       \* write's argument buf
    ret,        \* the value write has just returned to the encoder
    backlog,    \* connections accepted by the kernel, not yet by the server
    cpc,        \* each client's connection / handler place
    path,       \* each client's request path
    sframe,     \* do_GET's local `frame`
    wfile,      \* what has been written to each client's socket
    published,  \* history: the frames assigned to output.frame, in order
    waitBegan,  \* history: Len(published) when the session's wait began
    sidx,       \* history: Len(published) when the session read output.frame
    deliv,      \* history: the publish index of each payload written
    pubAtCall,  \* history: Len(published) when the write in progress was called
    present,    \* history: the clients queued when a session's write failed
    hungup,     \* the stream clients that have closed their end of the connection
    hist        \* whether the histories and the socket streams are recorded

vars == << mainpc, output, frame, lock, waiters, ppc, pbuf, ret, backlog, cpc,
           path, sframe, wfile, published, waitBegan, sidx, deliv, pubAtCall, present,
           hungup, hist >>

mainVars == << mainpc, output >>
prodVars == << ppc, pbuf, ret >>
histVars == << published, waitBegan, sidx, deliv, pubAtCall, present, hist >>

\* ---------------------------------------------------------------- helpers
\* Faulty variant of StartsWith: a chunk that is exactly the prefix is not
\* taken to start with it (the length test is off by one).
StartsWith_strict(buf, prefix) ==
    /\ Len(buf) > Len(prefix)
    /\ SubSeq(buf, 1, Len(prefix)) = prefix

\* Faulty variant of StartsWith: only the first byte is compared.
StartsWith_first(buf, prefix) ==
    /\ Len(buf) >= 1
    /\ buf[1] = prefix[1]

\* bytes.startswith
StartsWith(buf, prefix) ==
    /\ Len(buf) >= Len(prefix)
    /\ SubSeq(buf, 1, Len(prefix)) = prefix

\* A history or a socket stream with x added.  Without histories (hist
\* false) only what the program itself reads is kept, and runs are unbounded.
Record(seq, x) == IF hist THEN Append(seq, x) ELSE seq

\* The handler statements that write to the socket inside the stream branch.
SocketWriting == { "stream_hdr", "boundary", "part_hdr", "payload", "crlf" }

\* The places of a handler that is running on the server thread.
InHandler == { "do_GET", "index", "send_error", "stream_hdr", "with", "wait",
               "waiting", "woken", "read", "exit_with", "check",
               "boundary", "part_hdr", "payload", "crlf" }

\* The places inside `while True:` of the stream branch.
InLoop == InHandler \ { "do_GET", "index", "send_error", "stream_hdr" }

\* The encoder thread delivers chunks while recording and the process lives:
\* from start_recording (line 162) to stop_recording (line 176).
Recording == mainpc \in { "bind", "ssl", "serve", "interrupted", "finally" }

\* The listening socket exists: from HTTPServer.__init__ (line 165), which
\* binds and listens, to server_close (line 178).
Listening ==
    mainpc \in { "ssl", "serve", "interrupted", "finally", "stopped",
                 "server_close" }

Start ==
    /\ mainpc = "cert"
    /\ output = "None"
    /\ frame = None
    /\ lock = {}
    /\ waiters = {}
    /\ ppc = "idle"
    /\ pbuf = <<>>
    /\ ret = 0
    /\ backlog = <<>>
    /\ cpc = [c \in Clients |-> "idle"]
    /\ path = [c \in Clients |-> "/"]
    /\ sframe = [c \in Clients |-> None]
    /\ wfile = [c \in Clients |-> <<>>]
    /\ published = <<>>
    /\ waitBegan = [c \in Clients |-> 0]
    /\ sidx = [c \in Clients |-> 0]
    /\ deliv = [c \in Clients |-> <<>>]
    /\ pubAtCall = 0
    /\ present = [c \in Clients |-> {}]
    /\ hungup = {}

Init == Start /\ hist = TRUE

InitUnbounded == Start /\ hist = FALSE

\* ------------------------------------------------------------------ main
\* Lines 146-151: both PEM files must exist, else FileNotFoundError.
CheckCert ==
    /\ mainpc = "cert"
    /\ \/ mainpc' = "camera"
       \/ mainpc' = "failed"
    /\ UNCHANGED << output, frame, lock, waiters, prodVars, backlog, cpc, path,
                    sframe, wfile, histVars, hungup >>

\* Lines 153-157: Picamera2(), create_preview_configuration, configure.
CreateCamera ==
    /\ mainpc = "camera"
    /\ \/ mainpc' = "output"
       \/ mainpc' = "failed"
    /\ UNCHANGED << output, frame, lock, waiters, prodVars, backlog, cpc, path,
                    sframe, wfile, histVars, hungup >>

\* Faulty variant of CreateOutput: the `global output` declaration is
\* missing, so the StreamingOutput is bound to a local name and the global
\* stays None.
CreateOutput_local ==
    /\ mainpc = "output"
    /\ frame' = None
    /\ lock' = {}
    /\ waiters' = {}
    /\ mainpc' = "record"
    /\ UNCHANGED << output, prodVars, backlog, cpc, path, sframe, wfile,
                    histVars, hungup >>

\* Lines 159-160 with StreamingOutput.__init__ (33-35).
CreateOutput ==
    /\ mainpc = "output"
    /\ output' = "StreamingOutput"
    /\ frame' = None
    /\ lock' = {}
    /\ waiters' = {}
    /\ mainpc' = "record"
    /\ UNCHANGED << prodVars, backlog, cpc, path, sframe, wfile, histVars,
                    hungup >>

\* Line 162: start_recording starts the encoder thread, or raises.
StartRecording ==
    /\ mainpc = "record"
    /\ \/ mainpc' = "bind"
       \/ mainpc' = "failed"
    /\ UNCHANGED << output, frame, lock, waiters, prodVars, backlog, cpc, path,
                    sframe, wfile, histVars, hungup >>

\* Lines 164-165: HTTPServer(address, StreamingHandler) binds and listens,
\* or raises OSError.
BindServer ==
    /\ mainpc = "bind"
    /\ \/ mainpc' = "ssl"
       \/ mainpc' = "failed"
    /\ UNCHANGED << output, frame, lock, waiters, prodVars, backlog, cpc, path,
                    sframe, wfile, histVars, hungup >>

\* Lines 167-168 with create_ssl_context (135-138): load_cert_chain raises on
\* unusable PEM material.
WrapSocket ==
    /\ mainpc = "ssl"
    /\ \/ mainpc' = "serve"
       \/ mainpc' = "failed"
    /\ UNCHANGED << output, frame, lock, waiters, prodVars, backlog, cpc, path,
                    sframe, wfile, histVars, hungup >>

\* ------------------------------------------- StreamingOutput.write (37-49)
\* Line 45: the call, and the test buf.startswith(b"\xff\xd8").
WriteCall(buf) ==
    /\ Recording
    /\ ppc = "idle"
    /\ StartsWith(buf, SOI) => Len(published) < MaxPublish \/ ~hist
    /\ pbuf' = buf
    /\ ret' = 0
    /\ pubAtCall' = Len(published)
    /\ ppc' = IF StartsWith(buf, SOI) THEN "with" ELSE "return"
    /\ UNCHANGED << mainVars, frame, lock, waiters, backlog, cpc, path,
                    sframe, wfile, published, waitBegan, sidx, deliv, present,
                    hist, hungup >>

\* Line 46: `with self.condition:` acquires the condition's lock.
WriteAcquire ==
    /\ Recording
    /\ ppc = "with"
    /\ lock = {}
    /\ lock' = { Encoder }
    /\ ppc' = "assign"
    /\ UNCHANGED << mainVars, frame, waiters, pbuf, ret, backlog, cpc, path,
                    sframe, wfile, histVars, hungup >>

\* Line 47: self.frame = buf.
WriteAssign ==
    /\ Recording
    /\ ppc = "assign"
    /\ frame' = pbuf
    /\ published' = Record(published, pbuf)
    /\ ppc' = "notify"
    /\ UNCHANGED << mainVars, lock, waiters, pbuf, ret, backlog, cpc, path,
                    sframe, wfile, waitBegan, sidx, deliv, pubAtCall, present,
                    hist, hungup >>

\* Faulty variant of NotifyAll: the notify_all() call is left out, so the
\* frame is stored and nobody is woken.
NotifyAll_lost ==
    /\ Recording
    /\ ppc = "notify"
    /\ ppc' = "exit_with"
    /\ UNCHANGED << mainVars, frame, lock, waiters, pbuf, ret, backlog, cpc,
                    path, sframe, wfile, histVars, hungup >>

\* Line 48: self.condition.notify_all() releases every waiter; each must
\* still re-acquire the lock before its wait() returns.
NotifyAll ==
    /\ Recording
    /\ ppc = "notify"
    /\ cpc' = [c \in Clients |-> IF c \in waiters THEN "woken" ELSE cpc[c]]
    /\ waiters' = {}
    /\ ppc' = "exit_with"
    /\ UNCHANGED << mainVars, frame, lock, pbuf, ret, backlog, path, sframe,
                    wfile, histVars, hungup >>

\* Line 48 -> 49: leaving the `with` block releases the lock.
WriteRelease ==
    /\ Recording
    /\ ppc = "exit_with"
    /\ lock' = {}
    /\ ppc' = "return"
    /\ UNCHANGED << mainVars, frame, waiters, pbuf, ret, backlog, cpc, path,
                    sframe, wfile, histVars, hungup >>

\* Line 49: return len(buf).
WriteReturn ==
    /\ Recording
    /\ ppc = "return"
    /\ ret' = Len(pbuf)
    /\ ppc' = "returned"
    /\ UNCHANGED << mainVars, frame, lock, waiters, pbuf, backlog, cpc, path,
                    sframe, wfile, histVars, hungup >>

\* The encoder has taken the result; buf and the result are dropped until
\* it has the next chunk.
WriteDone ==
    /\ Recording
    /\ ppc = "returned"
    /\ pbuf' = <<>>
    /\ ret' = 0
    /\ ppc' = "idle"
    /\ UNCHANGED << mainVars, frame, lock, waiters, backlog, cpc, path, sframe,
                    wfile, histVars, hungup >>

\* ------------------------------------------------------------ the server
\* A client connects and sends its request; the kernel queues the
\* connection.  Clients are numbered in the order they connect.
Connect(c) ==
    /\ Listening
    /\ cpc[c] = "idle"
    /\ \A d \in Clients : d < c => cpc[d] # "idle"
    /\ cpc' = [cpc EXCEPT ![c] = "queued"]
    /\ backlog' = Append(backlog, c)
    /\ UNCHANGED << mainVars, frame, lock, waiters, prodVars, path, sframe,
                    wfile, histVars, hungup >>

\* Line 173: serve_forever of HTTPServer (line 165, not a threading server)
\* takes the next connection only when no handler is running, and runs the
\* handler on the server thread; the handler reads the request line,
\* `GET p HTTP/1.1` (for a request that names no HTTP version send_response
\* and send_header emit nothing), and calls do_GET with self.path = p.
Accept(c, p) ==
    /\ mainpc = "serve"
    /\ \A d \in Clients : cpc[d] \notin InHandler
    /\ backlog # <<>>
    /\ c = Head(backlog)
    /\ backlog' = Tail(backlog)
    /\ path' = [path EXCEPT ![c] = p]
    /\ cpc' = [cpc EXCEPT ![c] = "do_GET"]
    /\ UNCHANGED << mainVars, frame, lock, waiters, prodVars, sframe, wfile,
                    histVars, hungup >>

\* Faulty variant of Route: the final else branch is missing, and every path
\* but the stream's is answered with the page.
Route_nofallback(c) ==
    /\ mainpc = "serve"
    /\ cpc[c] = "do_GET"
    /\ cpc' = [cpc EXCEPT ![c] =
                 IF path[c] = "/stream.mjpg"
                 THEN IF output # "None" THEN "stream_hdr" ELSE "send_error"
                 ELSE "index"]
    /\ UNCHANGED << mainVars, frame, lock, waiters, prodVars, backlog, path,
                    sframe, wfile, histVars, hungup >>

\* Lines 76, 82, 83, 108: the branch do_GET takes.
Route(c) ==
    /\ mainpc = "serve"
    /\ cpc[c] = "do_GET"
    /\ cpc' = [cpc EXCEPT ![c] =
                 IF path[c] = "/" THEN "index"
                 ELSE IF path[c] = "/stream.mjpg" /\ output # "None"
                      THEN "stream_hdr"
                      ELSE "send_error"]
    /\ UNCHANGED << mainVars, frame, lock, waiters, prodVars, backlog, path,
                    sframe, wfile, histVars, hungup >>

\* Lines 77-81: the landing page; the handler returns and the connection
\* is closed.
SendIndex(c) ==
    /\ mainpc = "serve"
    /\ cpc[c] = "index"
    /\ wfile' = [wfile EXCEPT ![c] =
                   Record(Record(@, <<"status", 200, "text/html">>), <<"PAGE">>)]
    /\ cpc' = [cpc EXCEPT ![c] = "closed"]
    /\ UNCHANGED << mainVars, frame, lock, waiters, prodVars, backlog, path,
                    sframe, histVars, hungup >>

\* Lines 84-86 (503, output is None) and 109-110 (404).
SendError(c) ==
    /\ mainpc = "serve"
    /\ cpc[c] = "send_error"
    /\ wfile' = [wfile EXCEPT ![c] =
                   Record(@, <<"status",
                               IF path[c] = "/stream.mjpg" THEN 503 ELSE 404,
                               "text/html;charset=utf-8">>)]
    /\ cpc' = [cpc EXCEPT ![c] = "closed"]
    /\ UNCHANGED << mainVars, frame, lock, waiters, prodVars, backlog, path,
                    sframe, histVars, hungup >>

\* Lines 88-93: the 200 response and the multipart headers.
StreamHeaders(c) ==
    /\ mainpc = "serve"
    /\ cpc[c] = "stream_hdr"
    /\ wfile' = [wfile EXCEPT ![c] =
                   Record(@, <<"status", 200,
                               "multipart/x-mixed-replace; boundary=FRAME">>)]
    /\ cpc' = [cpc EXCEPT ![c] = "with"]
    /\ UNCHANGED << mainVars, frame, lock, waiters, prodVars, backlog, path,
                    sframe, histVars, hungup >>

\* Line 96: `with output.condition:` acquires the lock.
EnterWith(c) ==
    /\ mainpc = "serve"
    /\ cpc[c] = "with"
    /\ lock = {}
    /\ lock' = { c }
    /\ cpc' = [cpc EXCEPT ![c] = "wait"]
    /\ UNCHANGED << mainVars, frame, waiters, prodVars, backlog, path, sframe,
                    wfile, histVars, hungup >>

\* Faulty variant of Wait: the wait() call is left out (or returns without a
\* notification), so the session goes on to read with the lock still held.
Wait_nowait(c) ==
    /\ mainpc = "serve"
    /\ cpc[c] = "wait"
    /\ lock = { c }
    /\ waitBegan' = [waitBegan EXCEPT ![c] = Len(published)]
    /\ cpc' = [cpc EXCEPT ![c] = "read"]
    /\ UNCHANGED << mainVars, frame, lock, waiters, prodVars, backlog, path,
                    sframe, wfile, published, sidx, deliv, pubAtCall, present,
                    hist, hungup >>

\* Line 97: wait() registers the waiter and releases the lock, atomically
\* for every thread that takes the lock.
Wait(c) ==
    /\ mainpc = "serve"
    /\ cpc[c] = "wait"
    /\ lock = { c }
    /\ waiters' = waiters \cup { c }
    /\ lock' = {}
    /\ waitBegan' = [waitBegan EXCEPT ![c] = Len(published)]
    /\ cpc' = [cpc EXCEPT ![c] = "waiting"]
    /\ UNCHANGED << mainVars, frame, prodVars, backlog, path, sframe, wfile,
                    published, sidx, deliv, pubAtCall, present, hist, hungup >>

\* Line 97: a notified wait() re-acquires the lock and returns.
WaitReturn(c) ==
    /\ mainpc = "serve"
    /\ cpc[c] = "woken"
    /\ lock = {}
    /\ lock' = { c }
    /\ cpc' = [cpc EXCEPT ![c] = "read"]
    /\ UNCHANGED << mainVars, frame, waiters, prodVars, backlog, path, sframe,
                    wfile, histVars, hungup >>

\* Line 98: frame = output.frame.
ReadFrame(c) ==
    /\ mainpc = "serve"
    /\ cpc[c] = "read"
    /\ sframe' = [sframe EXCEPT ![c] = frame]
    /\ sidx' = [sidx EXCEPT ![c] = Len(published)]
    /\ cpc' = [cpc EXCEPT ![c] = "exit_with"]
    /\ UNCHANGED << mainVars, frame, lock, waiters, prodVars, backlog, path,
                    wfile, published, waitBegan, deliv, pubAtCall, present, hist,
                    hungup >>

\* Faulty variant of ExitWith: the part is written inside the `with` block,
\* so the lock is still held when the session goes on.
ExitWith_held(c) ==
    /\ mainpc = "serve"
    /\ cpc[c] = "exit_with"
    /\ cpc' = [cpc EXCEPT ![c] = "check"]
    /\ UNCHANGED << mainVars, frame, lock, waiters, prodVars, backlog, path,
                    sframe, wfile, histVars, hungup >>

\* Line 98 -> 99: leaving the `with` block releases the lock.
ExitWith(c) ==
    /\ mainpc = "serve"
    /\ cpc[c] = "exit_with"
    /\ lock' = lock \ { c }
    /\ cpc' = [cpc EXCEPT ![c] = "check"]
    /\ UNCHANGED << mainVars, frame, waiters, prodVars, backlog, path, sframe,
                    wfile, histVars, hungup >>

\* Lines 99-100: `if frame is None: continue`.
CheckFrame(c) ==
    /\ mainpc = "serve"
    /\ cpc[c] = "check"
    /\ cpc' = [cpc EXCEPT ![c] = IF sframe[c] = None THEN "with" ELSE "boundary"]
    /\ UNCHANGED << mainVars, frame, lock, waiters, prodVars, backlog, path,
                    sframe, wfile, histVars, hungup >>

\* Line 102: self.wfile.write(b"--FRAME\r\n").
WriteBoundary(c) ==
    /\ mainpc = "serve"
    /\ cpc[c] = "boundary"
    /\ wfile' = [wfile EXCEPT ![c] = Record(@, <<"--FRAME\r\n">>)]
    /\ cpc' = [cpc EXCEPT ![c] = "part_hdr"]
    /\ UNCHANGED << mainVars, frame, lock, waiters, prodVars, backlog, path,
                    sframe, histVars, hungup >>

\* Faulty variant of WritePartHeaders: Content-Length is taken from
\* output.frame as it is now, not from the frame the session read.
WritePartHeaders_current(c) ==
    /\ mainpc = "serve"
    /\ cpc[c] = "part_hdr"
    /\ wfile' = [wfile EXCEPT ![c] =
                   Record(@, <<"headers", "image/jpeg", Len(frame)>>)]
    /\ cpc' = [cpc EXCEPT ![c] = "payload"]
    /\ UNCHANGED << mainVars, frame, lock, waiters, prodVars, backlog, path,
                    sframe, histVars, hungup >>

\* Lines 103-105: the two part headers, Content-Type then Content-Length
\* (the decimal len(frame)), buffered by send_header and put on the socket
\* in one write by end_headers, which adds the blank line.
WritePartHeaders(c) ==
    /\ mainpc = "serve"
    /\ cpc[c] = "part_hdr"
    /\ wfile' = [wfile EXCEPT ![c] =
                   Record(@, <<"headers", "image/jpeg", Len(sframe[c])>>)]
    /\ cpc' = [cpc EXCEPT ![c] = "payload"]
    /\ UNCHANGED << mainVars, frame, lock, waiters, prodVars, backlog, path,
                    sframe, histVars, hungup >>

\* Line 106: self.wfile.write(frame).
WritePayload(c) ==
    /\ mainpc = "serve"
    /\ cpc[c] = "payload"
    /\ wfile' = [wfile EXCEPT ![c] = Record(@, <<"payload", sframe[c]>>)]
    /\ deliv' = [deliv EXCEPT ![c] = Record(@, sidx[c])]
    /\ cpc' = [cpc EXCEPT ![c] = "crlf"]
    /\ UNCHANGED << mainVars, frame, lock, waiters, prodVars, backlog, path,
                    sframe, published, waitBegan, sidx, pubAtCall, present,
                    hist, hungup >>

\* Faulty variant of WriteCRLF: the loop is around the writes only, so after
\* a part the session writes the frame it holds again instead of waiting.
WriteCRLF_again(c) ==
    /\ mainpc = "serve"
    /\ cpc[c] = "crlf"
    /\ wfile' = [wfile EXCEPT ![c] = Record(@, <<"\r\n">>)]
    /\ cpc' = [cpc EXCEPT ![c] = "boundary"]
    /\ UNCHANGED << mainVars, frame, lock, waiters, prodVars, backlog, path,
                    sframe, histVars, hungup >>

\* Line 107: self.wfile.write(b"\r\n"), then back to line 95.
WriteCRLF(c) ==
    /\ mainpc = "serve"
    /\ cpc[c] = "crlf"
    /\ wfile' = [wfile EXCEPT ![c] = Record(@, <<"\r\n">>)]
    /\ cpc' = [cpc EXCEPT ![c] = "with"]
    /\ UNCHANGED << mainVars, frame, lock, waiters, prodVars, backlog, path,
                    sframe, histVars, hungup >>

\* Faulty variant of WriteFail: the exception is caught inside the loop and
\* the session goes round again (a retry) instead of leaving do_GET.
WriteFail_retry(c) ==
    /\ mainpc = "serve"
    /\ cpc[c] \in SocketWriting
    /\ cpc' = [cpc EXCEPT ![c] = "with"]
    /\ UNCHANGED << mainVars, frame, lock, waiters, prodVars, backlog, path,
                    sframe, wfile, histVars, hungup >>

\* Lines 93, 102, 105, 106, 107: a socket write raises (the client is gone);
\* the exception leaves do_GET, the server logs it (handle_error), closes the
\* connection and goes back to accepting.  The handler's locals and the
\* connection's stream are discarded.
WriteFail(c) ==
    /\ mainpc = "serve"
    /\ cpc[c] \in SocketWriting
    /\ cpc' = [cpc EXCEPT ![c] = "failed"]
    /\ sframe' = [sframe EXCEPT ![c] = None]
    /\ wfile' = [wfile EXCEPT ![c] = <<>>]
    /\ waitBegan' = [waitBegan EXCEPT ![c] = 0]
    /\ sidx' = [sidx EXCEPT ![c] = 0]
    /\ deliv' = [deliv EXCEPT ![c] = <<>>]
    /\ present' = [present EXCEPT ![c] = { d \in Clients : cpc[d] = "queued" }]
    /\ hungup' = hungup \ { c }
    /\ UNCHANGED << mainVars, frame, lock, waiters, prodVars, backlog, path,
                    published, pubAtCall, hist >>

\* ------------------------------------------------------- specifications
Main ==
    \/ CheckCert \/ CreateCamera \/ CreateOutput
    \/ StartRecording \/ BindServer \/ WrapSocket

Write ==
    \/ \E buf \in Chunks : WriteCall(buf)
    \/ WriteAcquire \/ WriteAssign \/ NotifyAll \/ WriteRelease \/ WriteReturn
    \/ WriteDone

\* The handler's steps that need only the server thread to run.
Compute(c) ==
    \/ Route(c) \/ EnterWith(c) \/ Wait(c) \/ WaitReturn(c) \/ ReadFrame(c)
    \/ ExitWith(c) \/ CheckFrame(c)

\* The handler's steps that end when the client has taken the bytes.
SocketWrite(c) ==
    \/ SendIndex(c) \/ SendError(c) \/ StreamHeaders(c)
    \/ WriteBoundary(c) \/ WritePartHeaders(c) \/ WritePayload(c)
    \/ WriteCRLF(c)

Handler(c) == Compute(c) \/ SocketWrite(c)

Next ==
    \/ Main
    \/ Write
    \/ \E c \in Clients : Connect(c)
    \/ \E c \in Clients : \E p \in Paths : Accept(c, p)
    \/ \E c \in Clients : Handler(c)
    \/ \E c \in Clients : WriteFail(c)

\* The running process: start-up, the encoder, the clients and the server.
\* Leaving serve_forever (lines 174-178) is no step of Next.
Spec == Init /\ [][Next]_vars

\* The threads run: the encoder finishes a write it has begun, and the server
\* thread takes its next step.  Nothing obliges the encoder to deliver
\* another chunk, a client to connect, a socket write to end (a client may
\* stall) or to fail.  A thread that is blocked on the lock gets it if the
\* lock is free again and again (no thread is starved of the lock forever).
EncoderStep ==
    WriteAssign \/ NotifyAll \/ WriteRelease \/ WriteReturn \/ WriteDone

ServerStep ==
    \E c \in Clients : (\E p \in Paths : Accept(c, p)) \/ Compute(c)

ServerAcquire == \E c \in Clients : EnterWith(c) \/ WaitReturn(c)

Fairness ==
    /\ WF_vars(EncoderStep) /\ SF_vars(WriteAcquire)
    /\ WF_vars(ServerStep) /\ SF_vars(ServerAcquire)

FairSpec == InitUnbounded /\ [][Next]_vars /\ Fairness

\* As FairSpec, with clients that take what they are sent: every socket
\* write ends.
LiveSpec ==
    /\ InitUnbounded /\ [][Next]_vars /\ Fairness
    /\ WF_vars(\E c \in Clients : SocketWrite(c))

\* ------------------------------------------------- a client hangs up
\* The client of an open stream session closes its end of the connection.
\* The handler is told nothing: it learns of it only from a socket write
\* (lines 102-107), and Condition.wait() (line 97, no timeout) is ended by
\* notify_all alone.
ClientClose(c) ==
    /\ mainpc = "serve"
    /\ cpc[c] \in InLoop
    /\ c \notin hungup
    /\ hungup' = hungup \cup { c }
    /\ UNCHANGED << mainVars, frame, lock, waiters, prodVars, backlog, cpc,
                    path, sframe, wfile, histVars >>

NextClose == Next \/ \E c \in Clients : ClientClose(c)

\* As FairSpec, with clients that hang up; a write to a connection whose
\* client has hung up raises, if not at once then at a later write.
CloseSpec ==
    /\ InitUnbounded /\ [][NextClose]_vars /\ Fairness
    /\ SF_vars(\E c \in hungup : WriteFail(c))

\* ----------------------------------------------------------- shutdown
\* Line 173: KeyboardInterrupt (SIGINT) is raised in the main thread, which
\* is inside serve_forever: waiting for a connection or running a handler.
Interrupt ==
    /\ mainpc = "serve"
    /\ mainpc' = "interrupted"
    /\ UNCHANGED << output, frame, lock, waiters, prodVars, backlog, cpc, path,
                    sframe, wfile, histVars, hungup >>

\* Faulty variant of Unwind: handlers run on threads of their own (a
\* threading server), so the exception in the main thread ends none of them.
Unwind_detached ==
    /\ mainpc = "interrupted"
    /\ mainpc' = "finally"
    /\ UNCHANGED << output, frame, lock, waiters, prodVars, backlog, cpc, path,
                    sframe, wfile, histVars, hungup >>

\* Lines 95-107, 173 -> 174: the exception leaves the handler that is running
\* on the main thread, if there is one.  Out of wait() it first re-acquires
\* the lock and takes the session off the waiter set; leaving the `with`
\* block releases the lock; the server closes the connection
\* (shutdown_request) and the exception leaves serve_forever.
Unwind ==
    /\ mainpc = "interrupted"
    /\ \A c \in Clients : cpc[c] \in { "waiting", "woken" } => lock = {}
    /\ cpc' = [c \in Clients |->
                 IF cpc[c] \in InHandler THEN "aborted" ELSE cpc[c]]
    /\ waiters' = { c \in waiters : cpc[c] \notin InHandler }
    /\ lock' = { o \in lock : o = Encoder }
    /\ sframe' = [c \in Clients |->
                    IF cpc[c] \in InHandler THEN None ELSE sframe[c]]
    /\ wfile' = [c \in Clients |->
                   IF cpc[c] \in InHandler THEN <<>> ELSE wfile[c]]
    /\ waitBegan' = [c \in Clients |->
                       IF cpc[c] \in InHandler THEN 0 ELSE waitBegan[c]]
    /\ sidx' = [c \in Clients |->
                  IF cpc[c] \in InHandler THEN 0 ELSE sidx[c]]
    /\ deliv' = [c \in Clients |->
                   IF cpc[c] \in InHandler THEN <<>> ELSE deliv[c]]
    /\ hungup' = { c \in hungup : cpc[c] \notin InHandler }
    /\ mainpc' = "finally"
    /\ UNCHANGED << output, frame, prodVars, backlog, path, published,
                    pubAtCall, present, hist >>

\* Line 176: stop_recording stops the encoder; its thread ends after the
\* write it is in.
StopRecording ==
    /\ mainpc = "finally"
    /\ ppc = "idle"
    /\ mainpc' = "stopped"
    /\ UNCHANGED << output, frame, lock, waiters, prodVars, backlog, cpc, path,
                    sframe, wfile, histVars, hungup >>

\* Line 177: picam2.close().
CloseCamera ==
    /\ mainpc = "stopped"
    /\ mainpc' = "server_close"
    /\ UNCHANGED << output, frame, lock, waiters, prodVars, backlog, cpc, path,
                    sframe, wfile, histVars, hungup >>

\* Line 178: server_close closes the listening socket; the connections that
\* were never accepted are reset.  main returns and the process exits.
ServerClose ==
    /\ mainpc = "server_close"
    /\ cpc' = [c \in Clients |-> IF cpc[c] = "queued" THEN "reset" ELSE cpc[c]]
    /\ backlog' = <<>>
    /\ mainpc' = "exited"
    /\ UNCHANGED << output, frame, lock, waiters, prodVars, path, sframe,
                    wfile, histVars, hungup >>

Shutdown == Interrupt \/ Unwind \/ StopRecording \/ CloseCamera \/ ServerClose

NextShutdown == NextClose \/ Shutdown

\* The running process with clients that hang up and an operator who
\* interrupts it.
ShutdownSpec == InitUnbounded /\ [][NextShutdown]_vars

\* ================================================================ claims
\* The places of a session that has read output.frame after a wait and has
\* not yet begun the next wait's iteration.
AfterRead == { "exit_with", "check", "boundary", "part_hdr", "payload", "crlf" }

\* The claims' own reading of "a chunk that begins with 0xFF 0xD8".
BeginsWithSOI(b) == Len(b) >= 2 /\ b[1] = 255 /\ b[2] = 216

\* C1 (FairSpec).  No missed wakeup: the notify_all of a write moves every
\* session that is in the waiter set out of the wait, and a session that is
\* waiting when write has been called with a chunk beginning with 0xFF 0xD8
\* goes on to read a frame (not None), with no further write call required
\* (FairSpec obliges the encoder to finish a call, never to begin one).
C1_NoMissedWakeup ==
    /\ [][ (ppc = "notify" /\ ppc' # "notify")
             => /\ waiters' = {}
                /\ \A c \in waiters : cpc'[c] = "woken" ]_vars
    /\ \A c \in Clients :
          (c \in waiters /\ ppc = "with" /\ BeginsWithSOI(pbuf))
             ~> (cpc[c] = "exit_with" /\ sframe[c] # None)

\* A session that was waiting holds the chunk that the write still in
\* progress has just published.
C1_Witness ==
    \E c \in Clients :
        /\ cpc[c] = "exit_with"
        /\ ppc = "return"
        /\ BeginsWithSOI(pbuf)
        /\ sframe[c] = pbuf

\* C2 (Spec).  No stale delivery: the frame a session holds after its wait
\* has returned was published after that wait began; it is the frame of
\* publish number sidx, and sidx is larger than the number of publishes that
\* had happened when the wait began.
C2_NoStaleDelivery ==
    \A c \in Clients :
        cpc[c] \in AfterRead =>
            /\ sidx[c] > waitBegan[c]
            /\ sidx[c] <= Len(published)
            /\ sframe[c] = published[sidx[c]]

\* A session began to wait when a frame was already current, and holds a
\* later, different frame.
C2_Witness ==
    \E c \in Clients :
        /\ cpc[c] \in AfterRead
        /\ waitBegan[c] >= 1
        /\ sidx[c] > waitBegan[c]
        /\ sframe[c] # published[waitBegan[c]]

\* C3 as claimed (Spec): a session whose wait began before any publish
\* returns exactly the first published frame.
C3_ExactlyFirstFrame ==
    \A c \in Clients :
        (cpc[c] \in AfterRead /\ waitBegan[c] = 0) => sframe[c] = published[1]

\* C3 amended (Spec).  While nothing has been published, a session in the
\* streaming loop has read no frame and written no part: it is entering or
\* inside the wait.  A session whose wait began before any publish returns a
\* published frame, never None: the one that was the latest when it read
\* (publish number sidx), which is the first or a later one.
C3_FirstOrLaterFrame ==
    \A c \in Clients :
        /\ (cpc[c] \in InLoop /\ published = <<>>) =>
              /\ cpc[c] \in { "with", "wait", "waiting" }
              /\ sframe[c] = None
              /\ deliv[c] = <<>>
              /\ Len(wfile[c]) = 1
        /\ (cpc[c] \in AfterRead /\ waitBegan[c] = 0) =>
              /\ sframe[c] # None
              /\ sidx[c] >= 1
              /\ sidx[c] <= Len(published)
              /\ sframe[c] = published[sidx[c]]

\* A session whose wait began before any publish has returned with the
\* first published frame.
C3_Witness ==
    \E c \in Clients :
        /\ cpc[c] \in AfterRead
        /\ waitBegan[c] = 0
        /\ sidx[c] = 1
        /\ sframe[c] = published[1]

\* C5 (FairSpec).  No reader blocks the producer: a session owns the
\* condition's lock only between entering the `with` block and the wait, and
\* between the wait's return and leaving the block, never while it writes to
\* its socket; and a write that is at `with self.condition:` gets the lock,
\* although FairSpec lets every socket write stall for ever.
C5_NoReaderBlocksProducer ==
    /\ [](\A c \in Clients :
            /\ c \in lock => cpc[c] \in { "wait", "read", "exit_with" }
            /\ cpc[c] \in SocketWriting \cup { "index", "send_error" }
                  => c \notin lock)
    /\ (mainpc = "serve" /\ ppc = "with") ~> (ppc = "assign")

\* The encoder owns the lock while a session is in the middle of a part.
C5_Witness ==
    \E c \in Clients : cpc[c] = "payload" /\ lock = { Encoder }

\* C6 (Spec).  A write of a chunk that begins with 0xFF 0xD8 publishes
\* exactly once: from its assignment on, one frame more has been published
\* than when it was called, that frame and output.frame are the chunk itself;
\* and output.frame is always the last frame published, or None before the
\* first.
C6_PublishesChunk ==
    /\ (ppc \in { "notify", "exit_with", "return", "returned" }
          /\ BeginsWithSOI(pbuf)) =>
            /\ Len(published) = pubAtCall + 1
            /\ published[Len(published)] = pbuf
            /\ frame = pbuf
    /\ frame = IF published = <<>> THEN None ELSE published[Len(published)]

\* A write has returned after replacing a different frame by its chunk.
C6_Witness ==
    /\ ppc = "returned"
    /\ BeginsWithSOI(pbuf)
    /\ Len(published) = 2
    /\ published[1] # published[2]
    /\ frame = pbuf

\* C7 (Spec).  A write of a chunk that does not begin with 0xFF 0xD8 goes from
\* the call straight to the return, and none of its steps changes
\* output.frame, the published frames, the waiter set or any session's place;
\* and every write returns the length of its chunk.
C7_DropsOtherChunks ==
    /\ [][ (ppc' # ppc /\ ~BeginsWithSOI(pbuf'))
             => /\ frame' = frame
                /\ published' = published
                /\ waiters' = waiters
                /\ cpc' = cpc
                /\ lock' = lock ]_vars
    /\ [][ (ppc = "idle" /\ ppc' # "idle" /\ ~BeginsWithSOI(pbuf'))
             => ppc' = "return" ]_vars
    /\ [][ (ppc # "returned" /\ ppc' = "returned")
             => ret' = Len(pbuf) /\ pbuf' = pbuf ]_vars

\* A one-byte chunk has been dropped, its length returned, and a session that
\* was waiting for the first frame still waits.
C7_Witness ==
    /\ ppc = "returned"
    /\ pbuf = <<255>>
    /\ ret = 1
    /\ frame = None
    /\ waiters # {}

\* The payloads among what has been written to a socket.
Payloads(w) == SelectSeq(w, LAMBDA t : t[1] = "payload")

\* C8 (Spec).  The frames a session has written are a subsequence of the
\* published frames: each payload is the frame of the publish whose number
\* deliv records for it, and these numbers increase strictly.
C8_PublishOrder ==
    \A c \in Clients :
        LET ps == Payloads(wfile[c]) IN
        /\ Len(ps) = Len(deliv[c])
        /\ \A i \in 1 .. Len(ps) :
              /\ deliv[c][i] \in 1 .. Len(published)
              /\ ps[i][2] = published[deliv[c][i]]
              /\ i > 1 => deliv[c][i - 1] < deliv[c][i]

\* A session has written two different frames.
C8_Witness ==
    \E c \in Clients :
        /\ Len(deliv[c]) = 2
        /\ Payloads(wfile[c])[1] # Payloads(wfile[c])[2]

\* The encoder keeps publishing.
KeepsPublishing == []<><<WriteAssign>>_vars

\* C9 as claimed (LiveSpec): a write failure in one session changes neither
\* output.frame, nor the waiter set, nor another client's place; and, while
\* the encoder keeps publishing, every client that was connected when the write
\* failed gets its answer: a frame if it asks for the stream (unless its own
\* write fails), the page or the error otherwise.
C9_SessionIsolation ==
    /\ [][ \A c \in Clients :
             (cpc[c] # "failed" /\ cpc'[c] = "failed")
                => /\ frame' = frame
                   /\ waiters' = waiters
                   /\ \A d \in Clients \ { c } : cpc'[d] = cpc[d] ]_vars
    /\ KeepsPublishing =>
         \A c, d \in Clients :
            (cpc[c] = "failed" /\ d \in present[c])
               ~> (cpc[d] \in { "crlf", "failed", "closed" })

\* C10 as claimed (LiveSpec): while the encoder keeps publishing, every
\* client that has connected gets its answer, whatever sessions are open: a
\* frame if it asks for the stream (unless its own write fails), the page or
\* the error otherwise.
C10_AllClientsServed ==
    KeepsPublishing =>
        \A c \in Clients :
            (mainpc = "serve" /\ cpc[c] = "queued")
               ~> (cpc[c] \in { "crlf", "failed", "closed" })

\* The places of the streaming loop in which a session is on its way to, in,
\* or just out of the wait (lines 95-100).
AwaitingFrame == { "with", "wait", "waiting", "woken", "read", "exit_with",
                   "check" }

\* The places in which a session writes one part (lines 102-107).
WritingPart == { "boundary", "part_hdr", "payload", "crlf" }

\* C11 (Spec).  The session state machine.  A waiting session stays waiting
\* or, holding a frame, begins a part; a writing session goes on with its
\* part, or goes back to waiting once the part's last write has succeeded, or
\* terminates; a step out of a write that has not put its bytes on the socket
\* terminates the session; and a terminated session stays terminated: it
\* never waits, never takes the lock and never writes to its socket again.
C11_SessionStateMachine ==
    [][ \A c \in Clients :
          /\ cpc[c] \in AwaitingFrame =>
                \/ cpc'[c] \in AwaitingFrame
                \/ cpc[c] = "check" /\ sframe[c] # None /\ cpc'[c] = "boundary"
          /\ cpc[c] \in WritingPart =>
                \/ cpc'[c] \in WritingPart
                \/ /\ cpc[c] = "crlf"
                   /\ cpc'[c] = "with"
                   /\ wfile'[c] = Append(wfile[c], <<"\r\n">>)
                \/ cpc'[c] = "failed"
          /\ (cpc[c] \in SocketWriting /\ cpc'[c] # cpc[c]
                 /\ Len(wfile'[c]) # Len(wfile[c]) + 1) => cpc'[c] = "failed"
          /\ cpc[c] = "failed" =>
                /\ cpc'[c] = "failed"
                /\ wfile'[c] = wfile[c]
                /\ c \notin waiters'
                /\ c \notin lock' ]_vars

\* A session has terminated, and the server is writing a part to the next
\* client.
C11_Witness ==
    \E c, d \in Clients : cpc[c] = "failed" /\ cpc[d] \in WritingPart

\* C12 as claimed (CloseSpec): a session that is blocked in wait() when its
\* client has closed the connection terminates, whether or not the encoder
\* publishes again.
C12_ClosedWaiterTerminates ==
    \A c \in Clients :
        (cpc[c] = "waiting" /\ c \in hungup) ~> (cpc[c] = "failed")

\* C13 (ShutdownSpec).  Once serve_forever has been left and while main's
\* finally block runs, no handler is running: no session is entering, inside
\* or past the wait, none is writing to a socket, the waiter set is empty and
\* no session owns the lock; when the process exits the encoder has stopped
\* outside the lock and no connection is left queued.
C13_NoSessionSurvivesShutdown ==
    /\ mainpc \in { "finally", "stopped", "server_close", "exited" } =>
          /\ \A c \in Clients : cpc[c] \notin InHandler
          /\ waiters = {}
          /\ lock \subseteq { Encoder }
    /\ mainpc = "exited" =>
          /\ lock = {}
          /\ ppc = "idle"
          /\ \A c \in Clients : cpc[c] # "queued"

\* The process has exited after an interrupt that found a stream session
\* open and another connection queued.
C13_Witness ==
    /\ mainpc = "exited"
    /\ \E c, d \in Clients :
          /\ cpc[c] = "aborted"
          /\ path[c] = "/stream.mjpg"
          /\ cpc[d] = "reset"

\* What a stream session has put on its socket after the response headers.
Body(c) == SubSeq(wfile[c], 2, Len(wfile[c]))

Answer(c) == wfile[c][1]

C16_OutputBeforeServing ==
    /\ [](Listening => output # "None")
    /\ [](\A c \in Clients :
            /\ cpc[c] \notin { "idle" } => output # "None"
            /\ cpc[c] = "send_error" => path[c] # "/stream.mjpg")
    /\ [][ output # "None" => output' = output ]_vars

\* A request for the stream has just passed the `output is None` test.
C16_Witness ==
    \E c \in Clients :
        /\ cpc[c] = "stream_hdr"
        /\ path[c] = "/stream.mjpg"
        /\ output = "StreamingOutput"

\* C17 as claimed (Spec): when start-up fails, the listening socket has
\* not been bound: the failing step starts where no listener exists and no
\* client has connected.
C17_NoListenerBeforeFailure ==
    [][ (mainpc # "failed" /\ mainpc' = "failed")
           => /\ ~Listening
              /\ backlog = <<>> ]_vars

\* C18 (Spec).  The `frame is None` branch is dead: when a wait has been
\* ended by notify_all, output.frame is not None; the frame the session then
\* reads is not None; the test of line 99 always goes on to the part and
\* never back to the wait; and no step sets output.frame back to None.
C18_NoneBranchUnreachable ==
    /\ [](\A c \in Clients :
            /\ cpc[c] \in { "woken", "read" } => frame # None
            /\ cpc[c] \in { "exit_with", "check" } => sframe[c] # None)
    /\ [][ \A c \in Clients :
             (cpc[c] = "check" /\ cpc'[c] # "check") => cpc'[c] = "boundary"
          ]_vars
    /\ [][ frame # None => frame' # None ]_vars

\* A session that began to wait while output.frame was None is at the test
\* of line 99 with the frame that is current.
C18_Witness ==
    \E c \in Clients :
        /\ cpc[c] = "check"
        /\ waitBegan[c] = 0
        /\ sframe[c] = frame
        /\ frame # None

\* C19 (Spec).  No redelivery.  No publish is written twice by a session:
\* the publish numbers of its payloads are pairwise different.  And a session
\* that is about to write a payload began its last wait after every publish
\* it has written before, and holds the frame of a publish that came after
\* that wait began: a new publish lies between two consecutive parts.
C19_NoRedelivery ==
    \A c \in Clients :
        /\ \A i, j \in 1 .. Len(deliv[c]) :
              i # j => deliv[c][i] # deliv[c][j]
        /\ cpc[c] \in { "boundary", "part_hdr", "payload" } =>
              /\ \A i \in 1 .. Len(deliv[c]) : deliv[c][i] <= waitBegan[c]
              /\ waitBegan[c] < sidx[c]
        /\ cpc[c] = "crlf" =>
              /\ deliv[c] # <<>>
              /\ deliv[c][Len(deliv[c])] = sidx[c]

\* A session that has written the first publish is about to write the
\* second, which was published after the session had gone back to waiting.
C19_Witness ==
    \E c \in Clients :
        /\ cpc[c] = "payload"
        /\ deliv[c] = << 1 >>
        /\ waitBegan[c] = 1
        /\ sidx[c] = 2

====
